---- MODULE Spec2Model ----
(***************************************************************************)
(* Model of the Cognito user-pool exporter                                 *)
(* (cognito_attribute_exporter/cognito_exporter.py): the retrying caller   *)
(* with_backoff_retry, the export loop export_users, the checkpoint store  *)
(* save_checkpoint / load_checkpoint, the row projector                    *)
(* extract_user_attributes, discover_all_attributes, upload_to_s3 and      *)
(* main; and of CsvDeduplicator.deduplicate (cognito_csv_deduplicator.py). *)
(*                                                                         *)
(* Durations are integers in milliseconds.  Python strings are sequences   *)
(* of one-character strings; None is the one-element sequence <<"None">>,  *)
(* which no Python string equals because "None" is not one character.      *)
(***************************************************************************)
EXTENDS Integers, Sequences, FiniteSets, TLC

VARIABLES
    \* ---- CognitoExporter fields set by __init__
    max_retries, base_delay, page_size, max_records, pagination_token,
    starting_token, \* the constructor argument, kept to state the claims
    group_name, filter_expression,
    \* ---- the remote user pool: number of users in the listing, and what
    \* ---- the service puts in the token field of the last page (the field
    \* ---- is absent, or holds the empty string)
    pool_size, end_token,
    request,        \* parameters of the latest listing call sent
    \* ---- one call of with_backoff_retry
    rpc,            \* "idle" | "attempting" | "sleeping" | "returned" | "raised"
    retries,        \* the local `retries`
    delay,          \* the local `delay` handed to time.sleep
    rresult,        \* value returned, or exception raised, by the call
    history,        \* outcome of each invocation of func in this call
    sleeps,         \* number of time.sleep(delay) calls in this call
    \* ---- one call of export_users
    pc, total_exported, page_count, last_checkpoint, response, row_index,
    csv_file,       \* the output file: whether it exists, and its data rows
    ret,            \* return value / raised exception of export_users
    fetches,        \* tokens passed to get_users, in call order
    saves,          \* save_checkpoint calls of this run, in call order
    events,         \* what happened to this run: fetch failure, interrupt, ...
    cooldowns,      \* number of time.sleep(0.2) calls of this run
    \* ---- the file system: content of '<output_file>.checkpoint'
    checkpoint_file,
    disk,           \* how that file came to be: "missing" | "intact" | "torn"
    \* ---- result of the last load_checkpoint and what it found on disk
    loaded, found,
    \* ---- the columns and the row projector
    attributes,     \* self.attributes, the wanted names in column order
    user,           \* the user record handed to extract_user_attributes
    projected,      \* whether it was called, and the mapping it returned
    sample,         \* the users the service lists first, as full records
    dpc,            \* discover_all_attributes: "idle" | "fetching" | "done"
    \* ---- one call of upload_to_s3
    upc,            \* "idle" | "start" | "upload" | "uploading" | "finally"
                    \* | "returned" | "raised"
    compress,       \* the compress argument
    gz_file,        \* '<output_file>.gz': "missing" | "partial" | "complete"
    uploads,        \* the files handed to s3_client.upload_file, in order
    uret,           \* the exception upload_to_s3 is leaving with (cls
                    \* "none": no exception)
    \* ---- one run of main
    mpc,            \* "idle" | "start" | "construct" | "export" | "exported"
                    \* | "upload" | "exit"
    args,           \* the parsed command line
    exit_code,      \* what main returned
    log,            \* the messages main logged
    \* ---- one call of CsvDeduplicator.deduplicate
    in_file,        \* the input CSV: whether it exists, and its data rows
    key_fields, keep_first, dry_run,
    out_file,       \* the output CSV: whether it exists, and its data rows
    dret            \* "pending", then what deduplicate returned: "True" or
                    \* "False"

retryVars  == <<rpc, retries, delay, rresult, history, sleeps>>
configVars == <<max_retries, base_delay, page_size, max_records, pool_size,
                starting_token, group_name, filter_expression, end_token>>
exportVars == <<pc, pagination_token, total_exported, page_count,
                last_checkpoint, response, row_index, csv_file, ret, fetches,
                saves, events, cooldowns>>
storeVars  == <<checkpoint_file, disk, loaded, found>>
projVars   == <<attributes, user, projected, sample, dpc>>
uploadVars == <<upc, compress, gz_file, uploads, uret>>
mainVars   == <<mpc, args, exit_code, log>>
dedupVars  == <<in_file, key_fields, keep_first, dry_run, out_file, dret>>
auxVars    == <<projVars, uploadVars, mainVars, dedupVars>>
vars == <<configVars, retryVars, exportVars, storeVars, request, auxVars>>

-----------------------------------------------------------------------------
(* Python values *)

None == <<"None">>
NoFile == <<"ENOENT">>
Unbound == -1            \* a local name that has not been assigned yet

\* truth value of an Optional[str]: None and '' are falsy
Truthy(s) == s # None /\ s # <<>>
\* truth value of an int
TruthyInt(n) == n # 0

Min(a, b) == IF a <= b THEN a ELSE b
Max(a, b) == IF a >= b THEN a ELSE b
Abs(a) == IF a >= 0 THEN a ELSE 0 - a

-----------------------------------------------------------------------------
(* Retry configuration, class constants of CognitoExporter *)

MAX_RETRIES == 8
BASE_DELAY == 500        \* 0.5 s
MAX_DELAY == 30000       \* 30.0 s
JITTER_PERCENT == 25     \* JITTER = 0.25

(* Bounds of the retry inputs *)
MaxRetriesBound == 3
BigBaseDelay == 20000
BaseDelays == {0, BASE_DELAY, BigBaseDelay}

ThrottlingCodes == {"ThrottlingException", "TooManyRequestsException",
                    "Throttling", "LimitExceededException"}
OtherCodes == {"AccessDeniedException", "InvalidParameterException"}

\* exceptions the wrapped operation can raise at its n-th invocation
ClientError(code, n) == [cls |-> "ClientError", code |-> code, id |-> n]
OtherException(n) == [cls |-> "Exception", code |-> "", id |-> n]
KeyboardInterrupt == [cls |-> "KeyboardInterrupt", code |-> "", id |-> 0]
UnboundLocalError == [cls |-> "UnboundLocalError", code |-> "", id |-> 0]

IsThrottlingMutant(code) == code \in ThrottlingCodes \cup OtherCodes
\* line 162: error_code in ("ThrottlingException", ...)
IsThrottling(code) == code \in ThrottlingCodes

BudgetExhaustedMutant(r, m) == r + 1 >= m
BudgetExhaustedLate(r, m) == r > m
\* line 163: retries >= self.max_retries
BudgetExhausted(r, m) == r >= m

\* line 168: base_delay is a float (the default 0.5, and type=float on the
\* command line, line 440) and 2**retries an exact integer; the product
\* converts the integer to a float, which raises OverflowError from
\* 2**1024 on (the range of a double)
FLOAT_MAX_EXP == 1024

\* line 168: min(self.MAX_DELAY, self.base_delay * (2**retries)).  From
\* 2**15 on the product of a base delay of 1 ms or more is above MAX_DELAY;
\* below, it is computed (it fits 32 bits for base delays up to 100 s)
BackoffBase(bd, r) ==
    IF r >= 15 THEN (IF bd > 0 THEN MAX_DELAY ELSE 0)
    ELSE Min(MAX_DELAY, bd * (2 ^ r))

\* line 169: random.uniform(-JITTER * delay, JITTER * delay), sampled at the
\* two ends and the middle of the interval
JitterDraws(d) ==
    LET q == (JITTER_PERCENT * Abs(d)) \div 100
    IN  {0 - q, 0, q}

\* line 170: max(0, delay + jitter)
Jittered(d, j) == Max(0, d + j)

-----------------------------------------------------------------------------
(* with_backoff_retry, lines 138-181.  The call is started by its caller    *)
(* (rpc = "attempting"); each action below is one pass of the while loop.  *)

\* what func can do at its n-th invocation: raise one of these
OpErrors(n) == {ClientError(c, n) : c \in ThrottlingCodes \cup OtherCodes}
               \cup {OtherException(n)}

\* lines 157-162: the except ClientError clause takes the throttling branch
Retryable(e) == e.cls = "ClientError" /\ IsThrottling(e.code)

\* one entry of `history`: what an invocation of func did ("ok" with the
\* value returned, "throttled" or "error" with the exception raised)
Outcome(kind, what) == [kind |-> kind, what |-> what]

RetryStartMutant ==
    /\ rpc' = "attempting"
    /\ retries' = 1
    /\ delay' = 0
    /\ rresult' = None
    /\ history' = <<>>
    /\ sleeps' = 0

\* line 153: the call starts with retries = 0
RetryStart ==
    /\ rpc' = "attempting"
    /\ retries' = 0
    /\ delay' = 0
    /\ rresult' = None
    /\ history' = <<>>
    /\ sleeps' = 0

\* line 156: func returns val, and so does the call
with_backoff_retry_return(val) ==
    /\ rpc = "attempting"
    /\ rpc' = "returned"
    /\ rresult' = val
    /\ history' = Append(history, Outcome("ok", val))
    /\ UNCHANGED <<retries, delay, sleeps>>

\* lines 157-174: func raises a ClientError with a throttling code; the
\* call re-raises it when the budget is used up, else sleeps
with_backoff_retry_throttled ==
    /\ rpc = "attempting"
    /\ \E e \in OpErrors(Len(history) + 1) :
         /\ Retryable(e)
         /\ history' = Append(history, Outcome("throttled", e))
         /\ IF BudgetExhausted(retries, max_retries)
            THEN /\ rpc' = "raised"
                 /\ rresult' = e
                 /\ UNCHANGED <<retries, delay, sleeps>>
            ELSE IF retries >= FLOAT_MAX_EXP
            THEN /\ rpc' = "raised"
                 /\ rresult' = [cls |-> "OverflowError", code |-> "", id |-> 0]
                 /\ UNCHANGED <<retries, delay, sleeps>>
            ELSE /\ \E j \in JitterDraws(BackoffBase(base_delay, retries)) :
                      delay' = Jittered(BackoffBase(base_delay, retries), j)
                 /\ retries' = retries + 1
                 /\ sleeps' = sleeps + 1
                 /\ rpc' = "sleeping"
                 /\ UNCHANGED rresult

\* lines 175-181: func raises a ClientError with another code, or any other
\* Exception; the call re-raises it
with_backoff_retry_error ==
    /\ rpc = "attempting"
    /\ \E e \in OpErrors(Len(history) + 1) :
         /\ ~Retryable(e)
         /\ rpc' = "raised"
         /\ rresult' = e
         /\ history' = Append(history, Outcome("error", e))
    /\ UNCHANGED <<retries, delay, sleeps>>

\* line 174: time.sleep(delay) returns, the loop invokes func again
with_backoff_retry_wake ==
    /\ rpc = "sleeping"
    /\ rpc' = "attempting"
    /\ UNCHANGED <<retries, delay, rresult, history, sleeps>>

\* a KeyboardInterrupt during func or during time.sleep is no Exception: it
\* passes through both except clauses
with_backoff_retry_interrupt ==
    /\ rpc \in {"attempting", "sleeping"}
    /\ rpc' = "raised"
    /\ rresult' = KeyboardInterrupt
    /\ UNCHANGED <<retries, delay, history, sleeps>>

-----------------------------------------------------------------------------
(* json.dump / json.load on the checkpoint mapping, character by character *)

Digits == <<"0", "1", "2", "3", "4", "5", "6", "7", "8", "9">>
IsDigit(c) == \E d \in 1..10 : Digits[d] = c
DigitValue(c) == (CHOOSE d \in 1..10 : Digits[d] = c) - 1

\* str(n) for an int n >= 0
RECURSIVE NatToStr(_)
NatToStr(n) ==
    IF n < 10 THEN <<Digits[n + 1]>>
    ELSE NatToStr(n \div 10) \o <<Digits[(n % 10) + 1]>>

IntToStr(n) == IF n < 0 THEN <<"-">> \o NatToStr(0 - n) ELSE NatToStr(n)

\* int(s) for a string of digits
RECURSIVE StrToNat(_)
StrToNat(s) ==
    IF Len(s) = 0 THEN 0
    ELSE 10 * StrToNat(SubSeq(s, 1, Len(s) - 1)) + DigitValue(s[Len(s)])

KeyToken == <<"p", "a", "g", "i", "n", "a", "t", "i", "o", "n", "_", "t", "o", "k", "e", "n">>
KeyTotal == <<"t", "o", "t", "a", "l", "_", "e", "x", "p", "o", "r", "t", "e", "d">>
KeyTimestamp == <<"t", "i", "m", "e", "s", "t", "a", "m", "p">>
JsonNull == <<"n", "u", "l", "l">>
\* time.strftime("%Y-%m-%d %H:%M:%S"): the reading of the clock, which no
\* decision of the program depends on
Timestamp == <<"2", "0", "2", "6", "-", "0", "1", "-", "0", "1", " ", "0", "0", ":", "0", "0", ":", "0", "0">>

\* the encoder escapes the quote and the backslash inside a string
JsonEscapeChar(c) ==
    IF c = "\"" THEN <<"\\", "\"">>
    ELSE IF c = "\\" THEN <<"\\", "\\">>
    ELSE <<c>>

RECURSIVE JsonEscape(_)
JsonEscape(s) ==
    IF Len(s) = 0 THEN <<>>
    ELSE JsonEscapeChar(Head(s)) \o JsonEscape(Tail(s))

JsonString(s) == <<"\"">> \o JsonEscape(s) \o <<"\"">>
JsonOptString(s) == IF s = None THEN JsonNull ELSE JsonString(s)

\* json.dump(checkpoint_data, f), lines 296 and 301
json_dump(token, total, stamp) ==
    <<"{">> \o JsonString(KeyToken) \o <<":", " ">> \o JsonOptString(token)
    \o <<",", " ">> \o JsonString(KeyTotal) \o <<":", " ">> \o IntToStr(total)
    \o <<",", " ">> \o JsonString(KeyTimestamp) \o <<":", " ">>
    \o JsonString(stamp) \o <<"}">>

Scanned(val, next) == [ok |-> TRUE, val |-> val, next |-> next]
ScanFailed == [ok |-> FALSE, val |-> None, next |-> 0]

RECURSIVE SkipWs(_, _)
SkipWs(s, i) == IF i <= Len(s) /\ s[i] = " " THEN SkipWs(s, i + 1) ELSE i

\* the characters of a string literal after its opening quote
RECURSIVE ScanString(_, _, _)
ScanString(s, i, acc) ==
    IF i > Len(s) THEN ScanFailed
    ELSE IF s[i] = "\"" THEN Scanned(acc, i + 1)
    ELSE IF s[i] = "\\"
         THEN IF i + 1 <= Len(s) /\ s[i + 1] \in {"\"", "\\"}
              THEN ScanString(s, i + 2, Append(acc, s[i + 1]))
              ELSE ScanFailed
    ELSE ScanString(s, i + 1, Append(acc, s[i]))

RECURSIVE DigitsEnd(_, _)
DigitsEnd(s, i) == IF i <= Len(s) /\ IsDigit(s[i]) THEN DigitsEnd(s, i + 1) ELSE i

\* an integer literal: an optional minus sign, then digits with no leading zero
ScanInt(s, i) ==
    LET neg == i <= Len(s) /\ s[i] = "-"
        b == IF neg THEN i + 1 ELSE i
        e == DigitsEnd(s, b)
    IN  IF e = b THEN ScanFailed
        ELSE IF s[b] = "0" /\ e > b + 1 THEN ScanFailed
        ELSE Scanned(IF neg THEN 0 - StrToNat(SubSeq(s, b, e - 1))
                     ELSE StrToNat(SubSeq(s, b, e - 1)), e)

\* a value of the checkpoint mapping: a string, null or an integer
ScanValue(s, i) ==
    IF i > Len(s) THEN ScanFailed
    ELSE IF s[i] = "\"" THEN ScanString(s, i + 1, <<>>)
    ELSE IF i + 3 <= Len(s) /\ SubSeq(s, i, i + 3) = JsonNull
         THEN Scanned(None, i + 4)
    ELSE ScanInt(s, i)

\* the members of an object from the first key on, up to the closing brace
RECURSIVE ScanMembers(_, _, _)
ScanMembers(s, i, acc) ==
    IF i > Len(s) \/ s[i] # "\"" THEN ScanFailed
    ELSE LET k == ScanString(s, i + 1, <<>>)
             c == SkipWs(s, k.next)
         IN  IF ~k.ok \/ c > Len(s) \/ s[c] # ":" THEN ScanFailed
             ELSE LET v == ScanValue(s, SkipWs(s, c + 1))
                      d == SkipWs(s, v.next)
                      got == Append(acc, <<k.val, v.val>>)
                  IN  IF ~v.ok \/ d > Len(s) THEN ScanFailed
                      ELSE IF s[d] = "}" THEN Scanned(got, d + 1)
                      ELSE IF s[d] = "," THEN ScanMembers(s, SkipWs(s, d + 1), got)
                      ELSE ScanFailed

\* json.load(f), line 467: the mapping as a sequence of <<key, value>>, or
\* a failed scan for a JSONDecodeError.  Only a top-level object is scanned.
json_load(s) ==
    LET b == SkipWs(s, 1)
    IN  IF b > Len(s) \/ s[b] # "{" THEN ScanFailed
        ELSE LET m == SkipWs(s, b + 1)
                 r == IF m <= Len(s) /\ s[m] = "}" THEN Scanned(<<>>, m + 1)
                      ELSE ScanMembers(s, m, <<>>)
             IN  IF r.ok /\ SkipWs(s, r.next) = Len(s) + 1 THEN r ELSE ScanFailed

\* data.get(key, default): the last member of that key wins
RECURSIVE DictGet(_, _, _)
DictGet(data, key, default) ==
    IF Len(data) = 0 THEN default
    ELSE IF data[Len(data)][1] = key THEN data[Len(data)][2]
    ELSE DictGet(SubSeq(data, 1, Len(data) - 1), key, default)

-----------------------------------------------------------------------------
(* Checkpoint store: save_checkpoint (lines 289-303), load_checkpoint      *)
(* (lines 453-477).  The file is '<output_file>.checkpoint'.               *)

WriteFileMutant(old, content) ==
    IF old = NoFile \/ Len(old) <= Len(content) THEN content
    ELSE content \o SubSeq(old, Len(content) + 1, Len(old))
\* line 300: open(..., "w") truncates the file, the write replaces it whole
WriteFile(old, content) == content

\* the content of the checkpoint file after save_checkpoint(total_exported)
save_checkpoint(old, token, total) ==
    WriteFile(old, json_dump(token, total, Timestamp))

\* the pair (token, total) load_checkpoint returns for a file content
load_checkpointMutant(file) == <<(<<"1">>), 1>>
load_checkpoint(file) ==
    IF file = NoFile THEN <<None, 0>>
    ELSE LET r == json_load(file)
         IN  IF ~r.ok THEN <<None, 0>>
             ELSE <<DictGet(r.val, KeyToken, None), DictGet(r.val, KeyTotal, 0)>>

-----------------------------------------------------------------------------
(* The remote listing: users 1..pool_size in listing order; the token of a *)
(* page is the decimal offset of its first user.                           *)

SERVICE_PAGE_LIMIT == 60
CHECKPOINT_PAGES == 10
CHECKPOINT_RECORDS == 500

\* line 111: self.page_size = min(page_size, 60)
ClampPageSize(ps) == Min(ps, SERVICE_PAGE_LIMIT)

TokenOf(offset) == NatToStr(offset)

RequestParamsMutant(token) ==
    [op |-> IF Truthy(group_name) THEN "list_users_in_group" ELSE "list_users",
     Limit |-> page_size,
     GroupName |-> IF Truthy(group_name) THEN group_name ELSE None,
     NextToken |-> IF Truthy(group_name) THEN token ELSE None,
     PaginationToken |-> IF Truthy(group_name) THEN None ELSE token,
     Filter |-> IF ~Truthy(group_name) /\ Truthy(filter_expression)
                THEN filter_expression ELSE None]
\* lines 225-243: the client operation called and its keyword parameters;
\* a parameter that is not passed is None here
RequestParams(token) ==
    IF Truthy(group_name)
    THEN [op |-> "list_users_in_group",
          Limit |-> page_size,
          GroupName |-> group_name,
          NextToken |-> IF Truthy(token) THEN token ELSE None,
          PaginationToken |-> None,
          Filter |-> None]
    ELSE [op |-> "list_users",
          Limit |-> page_size,
          GroupName |-> None,
          NextToken |-> None,
          PaginationToken |-> IF Truthy(token) THEN token ELSE None,
          Filter |-> IF Truthy(filter_expression) THEN filter_expression
                     ELSE None]

\* no listing call has been sent yet
NoRequest ==
    [op |-> "none", Limit |-> 0, GroupName |-> None, NextToken |-> None,
     PaginationToken |-> None, Filter |-> None]

\* the service's answer to a request: one page and the token of the next,
\* under the key of the operation called; on the last page that key is
\* absent or holds the empty string
list_users(params) ==
    LET given == IF params.op = "list_users_in_group" THEN params.NextToken
                 ELSE params.PaginationToken
        offset == IF Truthy(given) THEN StrToNat(given) ELSE 0
        last == Max(offset, Min(offset + params.Limit, pool_size))
        next == IF last < pool_size THEN TokenOf(last) ELSE end_token
    IN  [Users |-> [i \in 1..(last - offset) |-> offset + i],
         PaginationToken |-> IF params.op = "list_users" THEN next ELSE None,
         NextToken |-> IF params.op = "list_users_in_group" THEN next
                       ELSE None]

\* lines 218-243
get_users_without_retry(token) == list_users(RequestParams(token))

NoResponse == [Users |-> <<>>, PaginationToken |-> None, NextToken |-> None]

ContinuationTokenMutant(resp) == resp.NextToken
\* line 390: response.get("PaginationToken") or response.get("NextToken")
ContinuationToken(resp) ==
    IF Truthy(resp.PaginationToken) THEN resp.PaginationToken
    ELSE resp.NextToken

CapReachedMutant(mr, total) == TruthyInt(mr) /\ total > mr
\* line 375: self.max_records and total_exported >= self.max_records
CapReached(mr, total) == TruthyInt(mr) /\ total >= mr

\* line 384
CheckpointDue(total, last, pages) ==
    (total - last >= CHECKPOINT_RECORDS) \/ (pages % CHECKPOINT_PAGES = 0)

SavesOnFailureMutant(token) == token # None
\* lines 360 and 406: if self.pagination_token
SavesOnFailure(token) == Truthy(token)

SaveRecord(token, total) == [token |-> token, total |-> total]

SaveCheckpointMutant(total) ==
    /\ checkpoint_file' = save_checkpoint(checkpoint_file, pagination_token, total + 1)
    /\ disk' = "intact"
    /\ saves' = Append(saves, SaveRecord(pagination_token, total + 1))
\* a call self.save_checkpoint(total) made by export_users
SaveCheckpoint(total) ==
    /\ checkpoint_file' = save_checkpoint(checkpoint_file, pagination_token, total)
    /\ disk' = "intact"
    /\ saves' = Append(saves, SaveRecord(pagination_token, total))

RetryIdle ==
    /\ rpc' = "idle"
    /\ retries' = 0
    /\ delay' = 0
    /\ rresult' = None
    /\ history' = <<>>
    /\ sleeps' = 0

-----------------------------------------------------------------------------
(* export_users, lines 326-408 *)

\* lines 333-347: open(self.output_file, "w") truncates, the header is written
export_users_open ==
    /\ pc = "start"
    /\ csv_file' = [exists |-> TRUE, rows |-> <<>>]
    /\ pc' = "opened"
    /\ UNCHANGED <<pagination_token, total_exported, page_count,
                   last_checkpoint, response, row_index, ret, fetches, saves,
                   events, cooldowns>>
    /\ UNCHANGED <<request, auxVars, configVars, retryVars, storeVars>>

\* lines 339 and 400-402: open raises IOError, export_users returns 0
export_users_open_fails ==
    /\ pc = "start"
    /\ pc' = "returned"
    /\ ret' = 0
    /\ events' = events \cup {"io_error"}
    /\ UNCHANGED <<pagination_token, total_exported, page_count,
                   last_checkpoint, response, row_index, csv_file, fetches,
                   saves, cooldowns>>
    /\ UNCHANGED <<request, auxVars, configVars, retryVars, storeVars>>

\* lines 349-351
export_users_counters ==
    /\ pc = "opened"
    /\ page_count' = 0
    /\ total_exported' = 0
    /\ last_checkpoint' = 0
    /\ pc' = "loop"
    /\ UNCHANGED <<pagination_token, response, row_index, csv_file, ret,
                   fetches, saves, events, cooldowns>>
    /\ UNCHANGED <<request, auxVars, configVars, retryVars, storeVars>>

\* lines 356 and 255: self.get_users(self.pagination_token) enters
\* with_backoff_retry
export_users_fetch ==
    /\ pc = "loop"
    /\ RetryStart
    /\ fetches' = Append(fetches, pagination_token)
    /\ pc' = "fetching"
    /\ UNCHANGED <<pagination_token, total_exported, page_count,
                   last_checkpoint, response, row_index, csv_file, ret, saves,
                   events, cooldowns>>
    /\ UNCHANGED <<request, auxVars, configVars, storeVars>>

\* the passes of with_backoff_retry while the page is being fetched
export_users_fetching ==
    /\ pc = "fetching"
    /\ \/ /\ \/ /\ RequestParams(pagination_token).Limit >= 1
                /\ with_backoff_retry_return(
                       get_users_without_retry(pagination_token))
             \/ with_backoff_retry_throttled
             \/ with_backoff_retry_error
          /\ request' = RequestParams(pagination_token)
       \/ /\ \/ with_backoff_retry_wake
             \/ with_backoff_retry_interrupt
          /\ UNCHANGED request
    /\ UNCHANGED <<auxVars, configVars, exportVars, storeVars>>

\* lines 356 and 365: get_users returned the page
export_users_page ==
    /\ pc = "fetching"
    /\ rpc = "returned"
    /\ response' = rresult
    /\ row_index' = 0
    /\ pc' = "rows"
    /\ RetryIdle
    /\ UNCHANGED <<pagination_token, total_exported, page_count,
                   last_checkpoint, csv_file, ret, fetches, saves, events,
                   cooldowns>>
    /\ UNCHANGED <<request, auxVars, configVars, storeVars>>

\* lines 357-362: get_users raised an Exception
export_users_fetch_failed ==
    /\ pc = "fetching"
    /\ rpc = "raised"
    /\ rresult.cls # "KeyboardInterrupt"
    /\ IF SavesOnFailure(pagination_token)
       THEN SaveCheckpoint(total_exported)
       ELSE UNCHANGED <<checkpoint_file, disk, saves>>
    /\ ret' = total_exported
    /\ pc' = "returned"
    /\ events' = events \cup {"fetch_failed"}
    /\ RetryIdle
    /\ UNCHANGED <<pagination_token, total_exported, page_count,
                   last_checkpoint, response, row_index, csv_file, fetches,
                   cooldowns>>
    /\ UNCHANGED <<request, auxVars, configVars, loaded, found>>

\* lines 369-377: one pass of the for loop over users_in_page
export_users_row ==
    /\ pc = "rows"
    /\ row_index < Len(response.Users)
    /\ csv_file' = [csv_file EXCEPT !.rows = Append(@, response.Users[row_index + 1])]
    /\ row_index' = row_index + 1
    /\ total_exported' = total_exported + 1
    /\ IF CapReached(max_records, total_exported + 1)
       THEN /\ ret' = total_exported + 1
            /\ pc' = "returned"
            /\ events' = events \cup {"cap"}
       ELSE UNCHANGED <<ret, pc, events>>
    /\ UNCHANGED <<pagination_token, page_count, last_checkpoint, response,
                   fetches, saves, cooldowns>>
    /\ UNCHANGED <<request, auxVars, configVars, retryVars, storeVars>>

\* lines 371 and 400-402: writer.writerow raises IOError, export_users
\* returns 0
export_users_row_fails ==
    /\ pc = "rows"
    /\ row_index < Len(response.Users)
    /\ ret' = 0
    /\ pc' = "returned"
    /\ events' = events \cup {"io_error"}
    /\ UNCHANGED <<pagination_token, total_exported, page_count,
                   last_checkpoint, response, row_index, csv_file, fetches,
                   saves, cooldowns>>
    /\ UNCHANGED <<request, auxVars, configVars, retryVars, storeVars>>

\* lines 379-398: the page is drained: count it, save the periodic
\* checkpoint, take the next token, then leave the loop or cool down
export_users_page_end ==
    /\ pc = "rows"
    /\ row_index = Len(response.Users)
    /\ page_count' = page_count + 1
    /\ IF /\ CheckpointDue(total_exported, last_checkpoint, page_count + 1)
          /\ Truthy(pagination_token)
       THEN /\ SaveCheckpoint(total_exported)
            /\ last_checkpoint' = total_exported
       ELSE UNCHANGED <<checkpoint_file, disk, saves, last_checkpoint>>
    /\ pagination_token' = ContinuationToken(response)
    /\ IF ~Truthy(ContinuationToken(response))
       THEN /\ ret' = total_exported
            /\ pc' = "returned"
            /\ events' = events \cup {"end"}
            /\ UNCHANGED cooldowns
       ELSE /\ pc' = "cooldown"
            /\ cooldowns' = cooldowns + 1
            /\ UNCHANGED <<ret, events>>
    /\ UNCHANGED <<total_exported, response, row_index, csv_file, fetches>>
    /\ UNCHANGED <<request, auxVars, configVars, retryVars, loaded, found>>

\* line 396: time.sleep(0.2) returns
export_users_cooldownMutant ==
    /\ pc = "cooldown"
    /\ pc' = "loop"
    /\ cooldowns' = cooldowns + 1
    /\ UNCHANGED <<pagination_token, total_exported, page_count,
                   last_checkpoint, response, row_index, csv_file, ret,
                   fetches, saves, events>>
    /\ UNCHANGED <<request, auxVars, configVars, retryVars, storeVars>>

export_users_cooldown ==
    /\ pc = "cooldown"
    /\ pc' = "loop"
    /\ UNCHANGED <<pagination_token, total_exported, page_count,
                   last_checkpoint, response, row_index, csv_file, ret,
                   fetches, saves, events, cooldowns>>
    /\ UNCHANGED <<request, auxVars, configVars, retryVars, storeVars>>

\* lines 403-408: a KeyboardInterrupt reaches the outer handler, from any
\* statement of the try block or out of get_users.  The handler reads the
\* local total_exported, which lines 333-349 have not assigned yet: an
\* UnboundLocalError leaves export_users.
export_users_interrupt ==
    /\ \/ pc \in {"start", "opened", "loop", "rows", "cooldown"}
       \/ pc = "fetching" /\ rpc = "raised" /\ rresult.cls = "KeyboardInterrupt"
    /\ events' = events \cup {"interrupted"}
    /\ IF total_exported = Unbound
       THEN /\ pc' = "raised"
            /\ UNCHANGED <<ret, checkpoint_file, disk, saves>>
       ELSE /\ IF SavesOnFailure(pagination_token)
               THEN SaveCheckpoint(total_exported)
               ELSE UNCHANGED <<checkpoint_file, disk, saves>>
            /\ ret' = total_exported
            /\ pc' = "returned"
    /\ RetryIdle
    /\ UNCHANGED <<pagination_token, total_exported, page_count,
                   last_checkpoint, response, row_index, csv_file, fetches,
                   cooldowns>>
    /\ UNCHANGED <<request, auxVars, configVars, loaded, found>>

-----------------------------------------------------------------------------
(* One run of export_users on a freshly constructed exporter *)

MaxExportRetries == 1
MaxSmallPool == 11
SmallCap == 3
ScenarioPool == 125
ThresholdPool == 540
BigPool == 600
ScenarioCap == 50
PageSizes == {1, 2, SERVICE_PAGE_LIMIT, SERVICE_PAGE_LIMIT + 40}

PoolSizes(ps) ==
    IF ps < SERVICE_PAGE_LIMIT THEN 0..MaxSmallPool
    ELSE {ScenarioPool, ThresholdPool, BigPool}
Caps(ps) == IF ps < SERVICE_PAGE_LIMIT THEN {0, SmallCap} ELSE {0, ScenarioCap}
\* no token, the empty token, or the token of the second page
StartingTokens(ps) == {None, <<>>, TokenOf(ClampPageSize(ps))}

IdleExport ==
    /\ total_exported = Unbound
    /\ page_count = Unbound
    /\ last_checkpoint = Unbound
    /\ response = NoResponse
    /\ row_index = 0
    /\ csv_file = [exists |-> FALSE, rows |-> <<>>]
    /\ ret = Unbound
    /\ fetches = <<>>
    /\ saves = <<>>
    /\ events = {}
    /\ cooldowns = 0
    /\ request = NoRequest

IdleRetry ==
    /\ rpc = "idle"
    /\ retries = 0
    /\ delay = 0
    /\ rresult = None
    /\ history = <<>>
    /\ sleeps = 0

IdleStore ==
    /\ checkpoint_file = NoFile
    /\ disk = "missing"
    /\ loaded = <<None, 0>>
    /\ found = "nothing"

\* the parts of the program, named in `parts`, that a run does not enter
Idle(parts) ==
    /\ IF "project" \in parts
       THEN /\ attributes = <<>>
            /\ user = [root |-> <<>>, Attributes |-> <<>>]
            /\ projected = [called |-> FALSE, row |-> <<>>]
            /\ sample = <<>>
            /\ dpc = "idle"
       ELSE TRUE
    /\ IF "upload" \in parts
       THEN /\ upc = "idle"
            /\ compress = FALSE
            /\ gz_file = "missing"
            /\ uploads = <<>>
            /\ uret = [cls |-> "none", code |-> "", id |-> 0]
       ELSE TRUE
    /\ IF "main" \in parts
       THEN /\ mpc = "idle"
            /\ args = [resume |-> FALSE, starting_token |-> None,
                       s3_bucket |-> None, filter_expression |-> None,
                       group_name |-> None]
            /\ exit_code = Unbound
            /\ log = {}
       ELSE TRUE
    /\ IF "dedup" \in parts
       THEN /\ in_file = [exists |-> FALSE, rows |-> <<>>]
            /\ key_fields = <<>>
            /\ keep_first = TRUE
            /\ dry_run = FALSE
            /\ out_file = [exists |-> FALSE, rows |-> <<>>]
            /\ dret = "pending"
       ELSE TRUE

\* __init__, lines 106-116, then export_users is about to be called
Init ==
    /\ max_retries \in 0..MaxExportRetries
    /\ base_delay = BASE_DELAY
    /\ \E ps \in PageSizes :
         /\ page_size = ClampPageSize(ps)
         /\ pool_size \in PoolSizes(ps)
         /\ max_records \in Caps(ps)
         /\ starting_token \in StartingTokens(ps)
    /\ group_name = None
    /\ filter_expression = None
    /\ end_token = None
    /\ pagination_token = starting_token
    /\ pc = "start"
    /\ IdleExport
    /\ IdleRetry
    /\ IdleStore
    /\ Idle({"project", "upload", "main", "dedup"})

Next ==
    \/ export_users_open
    \/ export_users_open_fails
    \/ export_users_counters
    \/ export_users_fetch
    \/ export_users_fetching
    \/ export_users_page
    \/ export_users_fetch_failed
    \/ export_users_row
    \/ export_users_row_fails
    \/ export_users_page_end
    \/ export_users_cooldown
    \/ export_users_interrupt

Spec == Init /\ [][Next]_vars

\* every statement of export_users completes: the file operations and the
\* remote call return or raise, the sleeps return
MaxTermPool == 3
TermInit == Init /\ pool_size <= MaxTermPool /\ starting_token = None
ExportFairSpec == TermInit /\ [][Next]_vars /\ WF_vars(Next)

-----------------------------------------------------------------------------
(* Runs of export_users in both listing modes, over page sizes on both      *)
(* sides of the valid range and both ways the service ends a listing        *)

MaxListPool == 3
ListPageSizes == {0 - 1, 0, 1, 2, SERVICE_PAGE_LIMIT + 1}

\* __init__, lines 106-132, then export_users is about to be called
ListInit ==
    /\ max_retries = MaxExportRetries
    /\ base_delay = BASE_DELAY
    /\ \E ps \in ListPageSizes :
         /\ page_size = ClampPageSize(ps)
         /\ starting_token \in {None, <<>>, TokenOf(1)}
    /\ pool_size \in 0..MaxListPool
    /\ max_records = 0
    /\ group_name \in {None, <<>>, <<"g">>}
    /\ filter_expression \in {None, <<"f">>}
    /\ end_token \in {None, <<>>}
    /\ pagination_token = starting_token
    /\ pc = "start"
    /\ IdleExport
    /\ IdleRetry
    /\ IdleStore
    /\ Idle({"project", "upload", "main", "dedup"})

ListSpec == ListInit /\ [][Next]_vars

-----------------------------------------------------------------------------
(* One call of with_backoff_retry on an arbitrary operation *)

OpValues == {"page", "uploaded"}

RetryInit ==
    /\ max_retries \in 0..MaxRetriesBound
    /\ base_delay \in BaseDelays
    /\ page_size = SERVICE_PAGE_LIMIT
    /\ pool_size = 0
    /\ max_records = 0
    /\ starting_token = None
    /\ group_name = None
    /\ filter_expression = None
    /\ end_token = None
    /\ pagination_token = None
    /\ pc = "idle"
    /\ IdleExport
    /\ IdleRetry
    /\ IdleStore
    /\ Idle({"project", "upload", "main", "dedup"})

\* line 153: a caller enters with_backoff_retry
with_backoff_retry_enter ==
    /\ rpc = "idle"
    /\ RetryStart
    /\ UNCHANGED <<request, auxVars, configVars, exportVars, storeVars>>

RetryNext ==
    \/ with_backoff_retry_enter
    \/ /\ \/ \E v \in OpValues : with_backoff_retry_return(v)
          \/ with_backoff_retry_throttled
          \/ with_backoff_retry_error
          \/ with_backoff_retry_wake
          \/ with_backoff_retry_interrupt
       /\ UNCHANGED <<request, auxVars, configVars, exportVars, storeVars>>

RetrySpec == RetryInit /\ [][RetryNext]_vars

\* a call under a budget above FLOAT_MAX_EXP that the service has throttled
\* at every invocation so far, close to the FLOAT_MAX_EXP-th
LongCallInit ==
    /\ max_retries = FLOAT_MAX_EXP + 1
    /\ base_delay \in BaseDelays \ {0}
    /\ page_size = SERVICE_PAGE_LIMIT
    /\ pool_size = 0
    /\ max_records = 0
    /\ starting_token = None
    /\ group_name = None
    /\ filter_expression = None
    /\ end_token = None
    /\ pagination_token = None
    /\ pc = "idle"
    /\ IdleExport
    /\ IdleStore
    /\ Idle({"project", "upload", "main", "dedup"})
    /\ rpc = "attempting"
    /\ retries \in {FLOAT_MAX_EXP - 2, FLOAT_MAX_EXP - 1}
    /\ delay = BackoffBase(base_delay, retries - 1)
    /\ rresult = None
    /\ history = [i \in 1..retries |->
                     Outcome("throttled", ClientError("ThrottlingException", i))]
    /\ sleeps = retries

\* calls from their start under small budgets, and long calls
RetryLongSpec == (RetryInit \/ LongCallInit) /\ [][RetryNext]_vars

\* the operation called returns or raises, and time.sleep returns: a pass
\* of the loop that can be taken is taken
RetryFairSpec == RetrySpec /\ WF_vars(RetryNext)

-----------------------------------------------------------------------------
(* The checkpoint store on its own: saves, torn saves and loads *)

MaxTokenLen == 2
MaxCount == 10
\* counts of one and of several digits
Counts == {0, MaxCount - 1, MaxCount}
TokenChars == {"a", "\"", "\\"}
\* the non-empty strings of at most MaxTokenLen characters
Tokens == UNION {[1..n -> TokenChars] : n \in 1..MaxTokenLen}

StoreInit ==
    /\ max_retries = MAX_RETRIES
    /\ base_delay = BASE_DELAY
    /\ page_size = SERVICE_PAGE_LIMIT
    /\ pool_size = 0
    /\ max_records = 0
    /\ starting_token = None
    /\ group_name = None
    /\ filter_expression = None
    /\ end_token = None
    /\ pagination_token = None
    /\ pc = "idle"
    /\ IdleExport
    /\ IdleRetry
    /\ IdleStore
    /\ Idle({"project", "upload", "main", "dedup"})

\* lines 289-303: save_checkpoint(total) of an exporter holding token t
store_save ==
    /\ \E t \in Tokens, n \in Counts :
         /\ pagination_token' = t
         /\ total_exported' = n
         /\ checkpoint_file' = save_checkpoint(checkpoint_file, t, n)
    /\ disk' = "intact"
    /\ loaded' = <<None, 0>>
    /\ found' = "nothing"
    /\ UNCHANGED <<page_count, last_checkpoint, response, row_index, csv_file,
                   ret, fetches, saves, events, cooldowns, pc>>
    /\ UNCHANGED <<request, auxVars, configVars, retryVars>>

\* lines 300-301: the process dies inside json.dump, after open(..., "w")
\* truncated the file: a proper prefix of the new content is on disk
store_save_torn ==
    /\ \E t \in Tokens, n \in Counts :
         LET content == json_dump(t, n, Timestamp) IN
         \E k \in {0, Len(content) \div 2, Len(content) - 1} :
             /\ pagination_token' = t
             /\ total_exported' = n
             /\ checkpoint_file' = WriteFile(checkpoint_file, SubSeq(content, 1, k))
    /\ disk' = "torn"
    /\ loaded' = <<None, 0>>
    /\ found' = "nothing"
    /\ UNCHANGED <<page_count, last_checkpoint, response, row_index, csv_file,
                   ret, fetches, saves, events, cooldowns, pc>>
    /\ UNCHANGED <<request, auxVars, configVars, retryVars>>

\* lines 453-477: load_checkpoint(filename)
store_load ==
    /\ found = "nothing"
    /\ loaded' = load_checkpoint(checkpoint_file)
    /\ found' = disk
    /\ UNCHANGED <<checkpoint_file, disk>>
    /\ UNCHANGED <<request, auxVars, configVars, retryVars, exportVars>>

StoreNext ==
    \/ store_save
    \/ store_save_torn
    \/ store_load

StoreSpec == StoreInit /\ [][StoreNext]_vars

-----------------------------------------------------------------------------
(* Claims on with_backoff_retry, checked under RetrySpec *)

Throttles(e) == e.cls = "ClientError" /\ e.code \in ThrottlingCodes
AllThrottled(n) == \A i \in 1..n : history[i].kind = "throttled"

C2_FatalAtOnce ==
    \A i \in 1..Len(history) :
        (history[i].kind # "ok" /\ ~Throttles(history[i].what)) =>
            /\ i = Len(history)
            /\ rpc = "raised"
            /\ rresult = history[i].what
            /\ sleeps = i - 1
            /\ retries = i - 1

\* a non-throttling error after two throttled retries, budget remaining
C2_Witness ==
    /\ rpc = "raised"
    /\ ~Throttles(rresult)
    /\ rresult.cls # "KeyboardInterrupt"
    /\ Len(history) = 3
    /\ sleeps = 2
    /\ retries < max_retries

\* C3: every delay handed to time.sleep lies within [0, MAX_DELAY].
C3_DelayWithinMaxDelay ==
    rpc = "sleeping" => (0 <= delay /\ delay <= MAX_DELAY)

-----------------------------------------------------------------------------
(* Claims on export_users, checked under Spec *)

\* the offset in the listing at which a run with this starting token begins
StartOffset(token) == IF Truthy(token) THEN StrToNat(token) ELSE 0
\* the number of records of the listing from the starting point on
Available == Max(0, pool_size - StartOffset(starting_token))
\* the number of pages in which the service delivers n records
PagesOf(n) == IF n = 0 THEN 1 ELSE (n + page_size - 1) \div page_size
\* the first n records of the listing from the starting point on
Listing(n) == [i \in 1..n |-> StartOffset(starting_token) + i]
Rows == Len(csv_file.rows)
Undisturbed == events \cap {"fetch_failed", "interrupted", "io_error"} = {}

C5_InterruptReturnsCount ==
    "interrupted" \in events =>
        /\ pc = "returned"
        /\ ret = Rows
        /\ Truthy(pagination_token) =>
             /\ Len(saves) >= 1
             /\ saves[Len(saves)] = SaveRecord(pagination_token, Rows)

\* C6: a run with no fetch failure, no interruption and no cap reached
\* fetches exactly the pages of the listing, the first with the starting
\* token and each later one with the token the previous page returned,
\* writes the records of the listing once each in listing order, and
\* returns their number.
C6_CompleteRun ==
    (pc = "returned" /\ events = {"end"}) =>
        /\ ret = Available
        /\ csv_file.rows = Listing(Available)
        /\ Len(fetches) = PagesOf(Available)
        /\ fetches[1] = starting_token
        /\ \A j \in 2..Len(fetches) :
             fetches[j] = get_users_without_retry(fetches[j - 1]).PaginationToken

\* the scenario of 3 pages (60 + 60 + 5 records)
C6_Witness ==
    /\ pc = "returned"
    /\ events = {"end"}
    /\ max_records = 0
    /\ page_size = SERVICE_PAGE_LIMIT
    /\ pool_size = ScenarioPool
    /\ Len(fetches) = 3
    /\ ret = ScenarioPool
    /\ Len(csv_file.rows) = ScenarioPool

\* C7: with max_records = m > 0 there are never more than m data rows; a
\* run with no failure over a listing of at least m records returns m at
\* the m-th row, having fetched only the pages that hold those m records;
\* with max_records = 0 the cap never ends a run.
C7_RecordCap ==
    /\ max_records > 0 => Rows <= max_records
    /\ (pc = "returned" /\ max_records > 0 /\ Undisturbed
            /\ Available >= max_records) =>
         /\ events = {"cap"}
         /\ ret = max_records
         /\ csv_file.rows = Listing(max_records)
         /\ Len(fetches) = PagesOf(max_records)
         /\ row_index = max_records - (PagesOf(max_records) - 1) * page_size
    /\ max_records = 0 => "cap" \notin events

\* the cap is hit in the middle of a page
C7_Witness ==
    /\ pc = "returned"
    /\ "cap" \in events
    /\ ret = max_records
    /\ row_index < Len(response.Users)
    /\ Truthy(ContinuationToken(response))

\* C10: once the page whose result carries no continuation token has been
\* fetched, export_users writes no checkpoint (stated for the steps of runs
\* that no interruption has reached).
C10_NoCheckpointAfterLastPage ==
    [][(/\ pc = "rows"
        /\ ~Truthy(ContinuationToken(response))
        /\ "interrupted" \notin events') => saves' = saves]_vars

-----------------------------------------------------------------------------
(* Claims on the checkpoint store, checked under StoreSpec *)

\* C8: load_checkpoint after a completed save_checkpoint returns the token
\* and the count of that save, whatever the file held before it.
C8_RoundTrip ==
    found = "intact" => loaded = <<pagination_token, total_exported>>

\* a token with a quote and a count of two digits came back
C8_Witness ==
    /\ found = "intact"
    /\ \E i \in 1..Len(pagination_token) : pagination_token[i] = "\""
    /\ total_exported = MaxCount
    /\ loaded = <<pagination_token, MaxCount>>

\* C9: what load_checkpoint returns for an unparseable checkpoint file
\* differs from what it returns for a missing one.
C9_CorruptDistinctFromMissing ==
    found = "torn" => loaded # load_checkpoint(NoFile)

-----------------------------------------------------------------------------
(* Claims about the listing requests (ListSpec) *)

\* C11: a page whose token is absent and a page whose token is the empty
\* string both end the listing: once such a page is drained export_users
\* returns and sends no further listing request; and the first request of a
\* run started with no token or with the empty string carries no token
\* parameter.
C11_EmptyTokenEndsListing ==
    /\ [][LET tok == IF Truthy(group_name) THEN response.NextToken
                     ELSE response.PaginationToken
          IN  /\ (pc = "rows" /\ row_index = Len(response.Users)
                    /\ tok \in {None, <<>>})
                 => (pc' = "returned" /\ fetches' = fetches
                     /\ request' = request)
              /\ pc = "returned" => (fetches' = fetches /\ request' = request)
         ]_vars
    /\ [](/\ (Len(fetches) = 1 /\ ~Truthy(starting_token)
               /\ request.op # "none")
              => (request.NextToken = None /\ request.PaginationToken = None)
          /\ (pc = "returned" /\ "end" \in events)
              => ContinuationToken(response) \in {None, <<>>})

\* the empty string starts a group listing of two pages and ends it
C11_Witness ==
    /\ pc = "returned"
    /\ "end" \in events
    /\ starting_token = <<>>
    /\ request.op = "list_users_in_group"
    /\ response.NextToken = <<>>
    /\ Len(fetches) = 2
    /\ Rows = pool_size

\* C14: every listing request sent, by list_users or list_users_in_group,
\* carries a Limit within 1..60 whatever page size was configured.
C14_LimitInRange ==
    request.op # "none" => request.Limit \in 1..SERVICE_PAGE_LIMIT

-----------------------------------------------------------------------------
(* extract_user_attributes, lines 257-287.  A user record has root-level   *)
(* fields (a function from names to values) and the list Attributes of     *)
(* {Name, Value} entries.  A value is a str, a bool or a list of str.      *)

(* [t |-> "str", s |-> chars], [t |-> "bool", b |-> BOOLEAN] or             *)
(* [t |-> "list", items |-> sequence of chars].                            *)

\* str(value): a str is itself, a bool is True / False, a list is its repr
PyStr(v) ==
    LET Items[i \in 0..Len(v.items)] ==
            IF i = 0 THEN <<>>
            ELSE Items[i - 1] \o (IF i = 1 THEN <<>> ELSE <<",", " ">>)
                 \o <<"'">> \o v.items[i] \o <<"'">>
    IN  CASE v.t = "str" -> v.s
          [] v.t = "bool" -> IF v.b THEN <<"T", "r", "u", "e">>
                             ELSE <<"F", "a", "l", "s", "e">>
          [] v.t = "list" -> <<"[">> \o Items[Len(v.items)] \o <<"]">>

\* lines 272-277: json.dumps(value) for a list, str(value) otherwise
RootText(v) ==
    LET Items[i \in 0..Len(v.items)] ==
            IF i = 0 THEN <<>>
            ELSE Items[i - 1] \o (IF i = 1 THEN <<>> ELSE <<",", " ">>)
                 \o JsonString(v.items[i])
    IN  IF v.t = "list" THEN <<"[">> \o Items[Len(v.items)] \o <<"]">>
        ELSE PyStr(v)

EmptyRowMutant(attrs) == [a \in {attrs[i] : i \in 1..(Len(attrs) - 1)} |-> <<>>]
\* line 267: result = {attr: "" for attr in self.attributes}
EmptyRow(attrs) == [a \in {attrs[i] : i \in 1..Len(attrs)} |-> <<>>]

\* lines 267-287: the root-level pass, then the pass over Attributes in list
\* order, each assigning result[name]
extract_user_attributes(u, attrs) ==
    LET wanted == {attrs[i] : i \in 1..Len(attrs)}
        empty == EmptyRow(attrs)
        root == [a \in DOMAIN empty |->
                    IF a \in wanted /\ a \in DOMAIN u.root
                    THEN RootText(u.root[a]) ELSE empty[a]]
        pass[i \in 0..Len(u.Attributes)] ==
            IF i = 0 THEN root
            ELSE IF u.Attributes[i].Name \in wanted
                 THEN [a \in DOMAIN pass[i - 1] \cup {u.Attributes[i].Name} |->
                          IF a = u.Attributes[i].Name
                          THEN PyStr(u.Attributes[i].Value)
                          ELSE pass[i - 1][a]]
                 ELSE pass[i - 1]
    IN  pass[Len(u.Attributes)]

(* The projector on its own: a column list, then records projected *)

MaxWanted == 2
MaxAttrs == 2
\* the records: any of two root-level fields, at most MaxAttrs nested
\* entries; the name Enabled can be in both places
UserRecords ==
    LET RootValues == {[t |-> "str", s |-> <<"a">>], [t |-> "bool", b |-> TRUE],
                       [t |-> "list", items |-> <<<<"a">>, <<"b">>>>]}
        AttrEntries == {[Name |-> n, Value |-> [t |-> "str", s |-> <<"c">>]] :
                           n \in {"email", "Enabled"}}
    IN  {[root |-> r, Attributes |-> a] :
            r \in UNION {[S -> RootValues] :
                            S \in SUBSET {"Username", "Enabled"}},
            a \in UNION {[1..n -> AttrEntries] : n \in 0..MaxAttrs}}
\* the column lists: at most MaxWanted names, repeats allowed
WantedLists ==
    UNION {[1..n -> {"Username", "Enabled", "email", "phone_number"}] :
              n \in 0..MaxWanted}

ProjectInit ==
    /\ max_retries = MAX_RETRIES
    /\ base_delay = BASE_DELAY
    /\ page_size = SERVICE_PAGE_LIMIT
    /\ pool_size = 0
    /\ max_records = 0
    /\ starting_token = None
    /\ group_name = None
    /\ filter_expression = None
    /\ end_token = None
    /\ pagination_token = None
    /\ pc = "idle"
    /\ IdleExport
    /\ IdleRetry
    /\ IdleStore
    /\ Idle({"upload", "main", "dedup"})
    /\ attributes \in WantedLists
    /\ user = [root |-> <<>>, Attributes |-> <<>>]
    /\ projected = [called |-> FALSE, row |-> <<>>]
    /\ sample = <<>>
    /\ dpc = "idle"

\* line 370: writer.writerow(self.extract_user_attributes(user))
extract_user_attributes_call ==
    /\ ~projected.called
    /\ \E u \in UserRecords :
         /\ user' = u
         /\ projected' = [called |-> TRUE,
                          row |-> extract_user_attributes(u, attributes)]
    /\ UNCHANGED <<attributes, sample, dpc>>
    /\ UNCHANGED <<request, uploadVars, mainVars, dedupVars, configVars,
                   retryVars, exportVars, storeVars>>

ProjectSpec == ProjectInit /\ [][extract_user_attributes_call]_vars

\* C12: the mapping extract_user_attributes returns has exactly the wanted
\* names as its keys, and a wanted name found neither at the root level of
\* the record nor in its Attributes list maps to the empty string.
C12_ExactColumns ==
    projected.called =>
        LET wanted == {attributes[i] : i \in 1..Len(attributes)}
            nested == {user.Attributes[i].Name : i \in 1..Len(user.Attributes)}
        IN  /\ DOMAIN projected.row = wanted
            /\ \A a \in wanted \ (DOMAIN user.root \cup nested) :
                   projected.row[a] = <<>>

\* two columns: one found in the record, one found nowhere in it
C12_Witness ==
    /\ projected.called
    /\ Len(attributes) = 2
    /\ attributes[1] \in DOMAIN user.root
    /\ attributes[2] = "phone_number"
    /\ projected.row["phone_number"] = <<>>
    /\ projected.row[attributes[1]] # <<>>
    /\ Len(user.Attributes) > 0

\* C13: a wanted name that is both a root-level field and a nested
\* Attributes entry gets the root-level value.
C13_RootLevelFirst ==
    projected.called =>
        \A a \in DOMAIN projected.row \cap DOMAIN user.root :
            projected.row[a] = RootText(user.root[a])

-----------------------------------------------------------------------------
(* upload_to_s3, lines 305-324.  The files are named by what they are:     *)
(* "output" is self.output_file and "output.gz" the compressed copy.       *)

CleanupDueMutant(c, gz, err) == c /\ gz # "missing" /\ err.cls = "none"
\* line 323: compress and gz_path and os.path.exists(gz_path); gz_path is
\* set whenever compress is
CleanupDue(c, gz, err) == c /\ gz # "missing"

\* lines 312-320: the try block up to the call of with_backoff_retry.  With
\* compress, open(self.output_file, "rb") fails when there is no output
\* file, before gzip.open creates the copy; the copy can fail or be
\* interrupted part-way
upload_to_s3_compress ==
    /\ upc = "start"
    /\ \/ /\ compress
          /\ ~csv_file.exists
          /\ uret' = OtherException(0)
          /\ upc' = "finally"
          /\ UNCHANGED <<gz_file, retryVars>>
       \/ /\ compress
          /\ csv_file.exists
          /\ gz_file' = "partial"
          /\ uret' \in {OtherException(0), KeyboardInterrupt}
          /\ upc' = "finally"
          /\ UNCHANGED retryVars
       \/ /\ compress
          /\ csv_file.exists
          /\ gz_file' = "complete"
          /\ upc' = "uploading"
          /\ RetryStart
          /\ UNCHANGED uret
       \/ /\ ~compress
          /\ upc' = "uploading"
          /\ RetryStart
          /\ UNCHANGED <<gz_file, uret>>
    /\ UNCHANGED <<compress, uploads>>
    /\ UNCHANGED <<request, projVars, mainVars, dedupVars, configVars,
                   exportVars, storeVars>>

\* line 320: the passes of with_backoff_retry around
\* s3_client.upload_file(file_to_upload, bucket, upload_key); the upload
\* succeeds only when the file is there
upload_to_s3_uploading ==
    /\ upc = "uploading"
    /\ \/ /\ \/ /\ compress \/ csv_file.exists
                /\ with_backoff_retry_return("uploaded")
             \/ with_backoff_retry_throttled
             \/ with_backoff_retry_error
          /\ uploads' = Append(uploads, IF compress THEN "output.gz"
                                        ELSE "output")
       \/ /\ \/ with_backoff_retry_wake
             \/ with_backoff_retry_interrupt
          /\ UNCHANGED uploads
    /\ UNCHANGED <<upc, compress, gz_file, uret>>
    /\ UNCHANGED <<request, projVars, mainVars, dedupVars, configVars,
                   exportVars, storeVars>>

\* lines 322-324: the finally clause, reached from a failed compression or
\* when with_backoff_retry has returned or raised; then upload_to_s3
\* returns, or the exception goes on to the caller
upload_to_s3_finally ==
    /\ \/ /\ upc = "finally"
          /\ UNCHANGED uret
       \/ /\ upc = "uploading"
          /\ rpc \in {"returned", "raised"}
          /\ uret' = IF rpc = "raised" THEN rresult
                     ELSE [cls |-> "none", code |-> "", id |-> 0]
    /\ gz_file' = IF CleanupDue(compress, gz_file, uret') THEN "missing"
                  ELSE gz_file
    /\ upc' = IF uret'.cls = "none" THEN "returned" ELSE "raised"
    /\ RetryIdle
    /\ UNCHANGED <<compress, uploads>>
    /\ UNCHANGED <<request, projVars, mainVars, dedupVars, configVars,
                   exportVars, storeVars>>

(* One call of upload_to_s3, with or without an output file on disk *)

MaxUploadRetries == 2

UploadInit ==
    /\ max_retries \in 0..MaxUploadRetries
    /\ base_delay = BASE_DELAY
    /\ page_size = SERVICE_PAGE_LIMIT
    /\ pool_size = 0
    /\ max_records = 0
    /\ starting_token = None
    /\ group_name = None
    /\ filter_expression = None
    /\ end_token = None
    /\ pagination_token = None
    /\ pc = "idle"
    /\ total_exported = Unbound
    /\ page_count = Unbound
    /\ last_checkpoint = Unbound
    /\ response = NoResponse
    /\ row_index = 0
    /\ csv_file \in {[exists |-> e, rows |-> <<>>] : e \in BOOLEAN}
    /\ ret = Unbound
    /\ fetches = <<>>
    /\ saves = <<>>
    /\ events = {}
    /\ cooldowns = 0
    /\ request = NoRequest
    /\ IdleRetry
    /\ IdleStore
    /\ Idle({"project", "main", "dedup"})
    /\ upc = "start"
    /\ compress \in BOOLEAN
    /\ gz_file \in {"missing", "complete"}
    /\ uploads = <<>>
    /\ uret = [cls |-> "none", code |-> "", id |-> 0]

UploadNext ==
    \/ upload_to_s3_compress
    \/ upload_to_s3_uploading
    \/ upload_to_s3_finally

UploadSpec == UploadInit /\ [][UploadNext]_vars

\* C15: with compress every file handed to the upload is the .gz copy and,
\* when upload_to_s3 has returned or raised, no .gz file is left; without
\* compress every file handed to the upload is the output file and the .gz
\* path is never touched; the output file stays as it was in both cases.
C15_CompressedUploadCleanup ==
    /\ [](/\ \A i \in 1..Len(uploads) :
                uploads[i] = IF compress THEN "output.gz" ELSE "output"
          /\ (compress /\ upc \in {"returned", "raised"})
                => gz_file = "missing")
    /\ [][/\ csv_file' = csv_file
          /\ ~compress => gz_file' = gz_file]_vars

\* a compressed upload that was throttled, then failed, and cleaned up
C15_Witness ==
    /\ compress
    /\ csv_file.exists
    /\ upc = "raised"
    /\ uret.cls = "ClientError"
    /\ uploads = <<"output.gz", "output.gz">>
    /\ gz_file = "missing"

-----------------------------------------------------------------------------
(* main, lines 480-541 *)

main_parse_argumentsMutant ==
    /\ mpc = "parse"
    /\ mpc' = "start"
    /\ UNCHANGED <<args, exit_code, log>>
    /\ UNCHANGED <<request, projVars, uploadVars, dedupVars, configVars,
                   retryVars, exportVars, storeVars>>

\* lines 425-428, 450 and 482: parse_args ends the program with status 2
\* when options of the mutually exclusive group are both given
main_parse_arguments ==
    /\ mpc = "parse"
    /\ IF args.filter_expression # None /\ args.group_name # None
       THEN /\ mpc' = "exit"
            /\ exit_code' = 2
            /\ log' = log \cup {"not allowed with argument"}
       ELSE /\ mpc' = "start"
            /\ UNCHANGED <<exit_code, log>>
    /\ UNCHANGED args
    /\ UNCHANGED <<request, projVars, uploadVars, dedupVars, configVars,
                   retryVars, exportVars, storeVars>>

\* lines 487-496: the starting token handed to the constructor
main_resume ==
    /\ mpc = "start"
    /\ IF args.resume /\ ~Truthy(args.starting_token)
       THEN /\ loaded' = load_checkpoint(checkpoint_file)
            /\ found' = disk
            /\ starting_token' =
                  IF Truthy(load_checkpoint(checkpoint_file)[1])
                  THEN load_checkpoint(checkpoint_file)[1]
                  ELSE args.starting_token
            /\ log' = IF Truthy(load_checkpoint(checkpoint_file)[1]) THEN log
                      ELSE log \cup {"No valid checkpoint found"}
       ELSE /\ starting_token' = args.starting_token
            /\ UNCHANGED <<loaded, found, log>>
    /\ mpc' = "construct"
    /\ UNCHANGED <<max_retries, base_delay, page_size, max_records, pool_size,
                   group_name, filter_expression, end_token>>
    /\ UNCHANGED <<args, exit_code, checkpoint_file, disk>>
    /\ UNCHANGED <<request, projVars, uploadVars, dedupVars, retryVars,
                   exportVars>>

\* lines 499-516: the exporter is constructed (line 112 takes the starting
\* token) and export_users is called
main_construct ==
    /\ mpc = "construct"
    /\ pagination_token' = starting_token
    /\ filter_expression' = args.filter_expression
    /\ group_name' = args.group_name
    /\ pc' = "start"
    /\ mpc' = "export"
    /\ UNCHANGED <<total_exported, page_count, last_checkpoint, response,
                   row_index, csv_file, ret, fetches, saves, events,
                   cooldowns>>
    /\ UNCHANGED <<args, exit_code, log>>
    /\ UNCHANGED <<max_retries, base_delay, page_size, max_records, pool_size,
                   starting_token, end_token>>
    /\ UNCHANGED <<request, projVars, uploadVars, dedupVars, retryVars,
                   storeVars>>

\* lines 516-534: export_users returned; the summary is logged, then the
\* upload is started when a bucket was given, else main returns 0
main_exported ==
    /\ mpc = "export"
    /\ pc = "returned"
    /\ log' = log \cup {"Export completed successfully"}
    /\ IF Truthy(args.s3_bucket)
       THEN /\ upc' = "start"
            /\ mpc' = "upload"
            /\ UNCHANGED exit_code
       ELSE /\ mpc' = "exit"
            /\ exit_code' = 0
            /\ UNCHANGED upc
    /\ UNCHANGED <<args, compress, gz_file, uploads, uret>>
    /\ UNCHANGED <<request, projVars, dedupVars, configVars, retryVars,
                   exportVars, storeVars>>

\* lines 527-534: upload_to_s3 returned, or raised an Exception that is
\* logged; main returns 0
main_uploaded ==
    /\ mpc = "upload"
    /\ \/ /\ upc = "returned"
          /\ UNCHANGED log
       \/ /\ upc = "raised"
          /\ uret.cls # "KeyboardInterrupt"
          /\ log' = log \cup {"Failed to upload to S3"}
    /\ mpc' = "exit"
    /\ exit_code' = 0
    /\ UNCHANGED args
    /\ UNCHANGED <<request, projVars, uploadVars, dedupVars, configVars,
                   retryVars, exportVars, storeVars>>

\* lines 536-541: the two except clauses of main.  A KeyboardInterrupt
\* reaches main from its own statements and out of upload_to_s3, but not out
\* of export_users, which handles it; an Exception reaches main from the
\* constructor and out of export_users
main_except ==
    /\ \/ /\ \/ mpc \in {"parse", "start", "construct"}
             \/ mpc = "upload" /\ upc = "raised"
                /\ uret.cls = "KeyboardInterrupt"
          /\ log' = log \cup {"Operation interrupted by user"}
          /\ exit_code' = 130
       \/ /\ \/ mpc = "construct"
             \/ mpc = "export" /\ pc = "raised"
          /\ log' = log \cup {"Unexpected error"}
          /\ exit_code' = 1
    /\ mpc' = "exit"
    /\ UNCHANGED args
    /\ UNCHANGED <<request, projVars, uploadVars, dedupVars, configVars,
                   retryVars, exportVars, storeVars>>

(* One run of main over a small pool, with or without a checkpoint file    *)
(* left by an earlier run                                                  *)

MaxMainPool == 2

MainInit ==
    /\ max_retries = MaxExportRetries
    /\ base_delay = BASE_DELAY
    /\ page_size = 1
    /\ pool_size \in 0..MaxMainPool
    /\ max_records = 0
    /\ starting_token = None
    /\ group_name = None
    /\ filter_expression = None
    /\ end_token = None
    /\ pagination_token = None
    /\ pc = "idle"
    /\ total_exported = Unbound
    /\ page_count = Unbound
    /\ last_checkpoint = Unbound
    /\ response = NoResponse
    /\ row_index = 0
    /\ ret = Unbound
    /\ fetches = <<>>
    /\ saves = <<>>
    /\ events = {}
    /\ cooldowns = 0
    /\ request = NoRequest
    /\ IdleRetry
    \* no earlier run, or an earlier run that wrote the first record and
    \* then failed to fetch the second page: its checkpoint is complete, or
    \* was cut short before the closing brace
    /\ \/ /\ checkpoint_file = NoFile
          /\ disk = "missing"
          /\ csv_file = [exists |-> FALSE, rows |-> <<>>]
       \/ /\ checkpoint_file = json_dump(TokenOf(1), 1, Timestamp)
          /\ disk = "intact"
          /\ csv_file = [exists |-> TRUE, rows |-> <<1>>]
       \/ /\ checkpoint_file =
                 SubSeq(json_dump(TokenOf(1), 1, Timestamp), 1,
                        Len(json_dump(TokenOf(1), 1, Timestamp)) - 1)
          /\ disk = "torn"
          /\ csv_file = [exists |-> TRUE, rows |-> <<1>>]
    /\ loaded = <<None, 0>>
    /\ found = "nothing"
    /\ Idle({"project", "dedup"})
    /\ upc = "idle"
    /\ compress \in BOOLEAN
    /\ gz_file = "missing"
    /\ uploads = <<>>
    /\ uret = [cls |-> "none", code |-> "", id |-> 0]
    /\ mpc = "parse"
    /\ args \in [resume : BOOLEAN, starting_token : {None, TokenOf(1)},
                 s3_bucket : {None, <<"b">>},
                 filter_expression : {None, <<"f">>},
                 group_name : {None, <<"g">>}]
    \* the runs with a filter or a group are plain runs over one record
    /\ (args.filter_expression # None \/ args.group_name # None)
          => /\ pool_size = 1
             /\ disk = "missing"
             /\ ~args.resume
             /\ args.starting_token = None
             /\ ~compress
    /\ exit_code = Unbound
    /\ log = {}

MainNext ==
    \/ main_parse_arguments
    \/ main_resume
    \/ main_construct
    \/ main_exported
    \/ main_uploaded
    \/ main_except
    \/ Next
    \/ UploadNext

MainSpec == MainInit /\ [][MainNext]_vars

\* C16: main returns 130 whenever the user interrupted the run, also when
\* the interrupt came while export_users was in its loop (shown here: the
\* runs in which export_users handled the interrupt and returned).
C16_InterruptExitCode ==
    (mpc = "exit" /\ "interrupted" \in events /\ pc = "returned")
        => exit_code = 130

\* C17: after a failure to open or write the output file main does not
\* log success, does not return 0 and does not start the upload.
C17_OutputFailureIsFatal ==
    "io_error" \in events =>
        /\ "Export completed successfully" \notin log
        /\ exit_code # 0
        /\ upc = "idle"

-----------------------------------------------------------------------------
(* discover_all_attributes, lines 183-216 *)

\* lines 33-64
COMMON_ATTRIBUTES ==
    <<"sub", "username", "email", "email_verified", "phone_number",
      "phone_number_verified", "name", "given_name", "family_name",
      "middle_name", "nickname", "preferred_username", "profile",
      "picture", "website", "gender", "birthdate", "zoneinfo", "locale",
      "address", "updated_at", "cognito:mfa_enabled",
      "cognito:username", "cognito:roles", "cognito:groups",
      "custom:tenant_id", "UserCreateDate", "UserLastModifiedDate",
      "Enabled", "UserStatus">>

\* the names of COMMON_ATTRIBUTES and of the sampled records in the order
\* sorted() puts them, by code point: capitals before lower-case letters
NameOrder ==
    <<"Attributes", "Enabled", "MFAOptions", "UserCreateDate",
      "UserLastModifiedDate", "UserStatus", "Username", "address",
      "birthdate", "cognito:groups", "cognito:mfa_enabled",
      "cognito:roles", "cognito:username", "custom:tenant_id",
      "custom:x", "email", "email_verified", "family_name", "gender",
      "given_name", "locale", "middle_name", "name", "nickname",
      "phone_number", "phone_number_verified", "picture",
      "preferred_username", "profile", "sub", "updated_at", "username",
      "website", "zoneinfo">>

SAMPLE_SIZEMutant == 5 + 1
\* line 203: response.get("Users", [])[:5]
SAMPLE_SIZE == 5


\* line 193: self.with_backoff_retry(self.get_users_without_retry) is
\* entered
discover_all_attributes_enter ==
    /\ dpc = "idle"
    /\ RetryStart
    /\ dpc' = "fetching"
    /\ UNCHANGED <<attributes, user, projected, sample>>
    /\ UNCHANGED <<request, uploadVars, mainVars, dedupVars, configVars,
                   exportVars, storeVars>>

\* the passes of with_backoff_retry while the first page is being fetched
discover_all_attributes_fetching ==
    /\ dpc = "fetching"
    /\ \/ with_backoff_retry_return(
             [Users |-> sample, PaginationToken |-> None, NextToken |-> None])
       \/ with_backoff_retry_throttled
       \/ with_backoff_retry_error
       \/ with_backoff_retry_wake
       \/ with_backoff_retry_interrupt
    /\ UNCHANGED <<projVars, request, uploadVars, mainVars, dedupVars,
                   configVars, exportVars, storeVars>>

\* lines 195-216: no users, or an Exception out of the fetch: the baseline
\* list itself; else the names of the first SAMPLE_SIZE users, root-level
\* keys (Attributes is one of them) and nested names, are added user by
\* user to set(COMMON_ATTRIBUTES) and the set is sorted.  A
\* KeyboardInterrupt is no Exception and leaves discover_all_attributes
discover_all_attributes_return ==
    /\ dpc = "fetching"
    /\ rpc \in {"returned", "raised"}
    /\ IF rpc = "raised" /\ rresult.cls = "KeyboardInterrupt"
       THEN /\ dpc' = "raised"
            /\ UNCHANGED attributes
       ELSE /\ dpc' = "done"
            /\ attributes' =
                 IF rpc = "raised" THEN COMMON_ATTRIBUTES
                 ELSE IF rresult.Users = <<>> THEN COMMON_ATTRIBUTES
                 ELSE LET users == rresult.Users
                          all[i \in 0..Min(Len(users), SAMPLE_SIZE)] ==
                              IF i = 0
                              THEN {COMMON_ATTRIBUTES[k] :
                                       k \in 1..Len(COMMON_ATTRIBUTES)}
                              ELSE all[i - 1]
                                   \cup DOMAIN users[i].root
                                   \cup {"Attributes"}
                                   \cup {users[i].Attributes[k].Name :
                                            k \in 1..Len(users[i].Attributes)}
                          Test(n) == n \in all[Min(Len(users), SAMPLE_SIZE)]
                      IN  SelectSeq(NameOrder, Test)
    /\ UNCHANGED <<user, projected, sample>>
    /\ UNCHANGED <<request, uploadVars, mainVars, dedupVars, configVars,
                   retryVars, exportVars, storeVars>>

(* One call of discover_all_attributes on the first page of a pool *)

MaxSample == 6

\* two kinds of user record, each with a root-level field and a nested
\* entry the other kind does not have; a base delay of 0 leaves one delay
\* to draw
DiscoverInit ==
    /\ max_retries = MaxExportRetries
    /\ base_delay = 0
    /\ page_size = SERVICE_PAGE_LIMIT
    /\ pool_size = 0
    /\ max_records = 0
    /\ starting_token = None
    /\ group_name = None
    /\ filter_expression = None
    /\ end_token = None
    /\ pagination_token = None
    /\ pc = "idle"
    /\ IdleExport
    /\ IdleRetry
    /\ IdleStore
    /\ Idle({"upload", "main", "dedup"})
    /\ attributes = <<>>
    /\ user = [root |-> <<>>, Attributes |-> <<>>]
    /\ projected = [called |-> FALSE, row |-> <<>>]
    /\ LET Name(n) == [t |-> "str", s |-> <<n>>]
           Kinds ==
             {[root |-> [n \in {"Username", "Enabled"} |-> Name("u")],
               Attributes |-> <<[Name |-> "sub", Value |-> Name("s")],
                                [Name |-> "custom:x", Value |-> Name("x")]>>],
              [root |-> [n \in {"Username", "MFAOptions"} |-> Name("u")],
               Attributes |-> <<[Name |-> "email", Value |-> Name("e")]>>]}
       IN  sample \in UNION {[1..n -> Kinds] : n \in 0..MaxSample}
    /\ dpc = "idle"

DiscoverSpec ==
    DiscoverInit /\ [][\/ discover_all_attributes_enter
                       \/ discover_all_attributes_fetching
                       \/ discover_all_attributes_return]_vars

\* C18: no Exception leaves discover_all_attributes (only a user interrupt
\* does).  It returns the baseline list itself when the fetch failed or
\* the first page has no users; otherwise the baseline names together with
\* the root-level and nested names of the first five users of the page, and
\* no other name, in sorted order without repeats.
C18_DiscoveredColumns ==
    /\ dpc = "raised" => rresult.cls = "KeyboardInterrupt"
    /\ dpc = "done" =>
         IF rpc = "raised" \/ sample = <<>>
         THEN attributes = COMMON_ATTRIBUTES
         ELSE LET Position(n) == CHOOSE k \in 1..Len(NameOrder) : NameOrder[k] = n
                  firstFive == {i \in 1..Len(sample) : i <= 5}
              IN  /\ {attributes[k] : k \in 1..Len(attributes)} =
                        {COMMON_ATTRIBUTES[k] : k \in 1..Len(COMMON_ATTRIBUTES)}
                        \cup {"Attributes"}
                        \cup UNION {DOMAIN sample[i].root : i \in firstFive}
                        \cup UNION {{sample[i].Attributes[k].Name :
                                        k \in 1..Len(sample[i].Attributes)} :
                                    i \in firstFive}
                  /\ \A j, k \in 1..Len(attributes) :
                        j < k => Position(attributes[j]) < Position(attributes[k])

\* six users sampled: the sixth alone has the field MFAOptions
C18_Witness ==
    /\ dpc = "done"
    /\ rpc = "returned"
    /\ Len(sample) = 6
    /\ "MFAOptions" \in DOMAIN sample[6].root
    /\ \A i \in 1..5 : "MFAOptions" \notin DOMAIN sample[i].root
    /\ \E k \in 1..Len(attributes) : attributes[k] = "custom:x"
    /\ \A k \in 1..Len(attributes) : attributes[k] # "MFAOptions"

-----------------------------------------------------------------------------
(* CsvDeduplicator (cognito_csv_deduplicator.py).  The CSV has the columns  *)
(* email and sub, in this order; a row is what csv.DictReader yields: a    *)
(* mapping from column to string, with None for the last column when the   *)
(* line is too short for it.                                               *)

get_row_keyMutant(row, fields) ==
    LET Text(v) == IF v = None THEN <<>> ELSE v
        Join[i \in 0..Len(fields)] ==
            IF i = 0 THEN <<>> ELSE Join[i - 1] \o Text(row[fields[i]])
    IN  Join[Len(fields)]
\* lines 84-96: str(tuple(row.get(field, '') for field in self.key_fields));
\* repr of a str quotes it, with double quotes when it holds a single quote
\* and no double quote, and escapes backslash and the quote in use
get_row_key(row, fields) ==
    LET Has(s, c) == \E k \in 1..Len(s) : s[k] = c
        Escaped(s) ==
            LET E[k \in 0..Len(s)] ==
                    IF k = 0 THEN <<>>
                    ELSE E[k - 1] \o (IF s[k] \in {"'", "\\"}
                                      THEN <<"\\", s[k]>> ELSE <<s[k]>>)
            IN  E[Len(s)]
        Repr(v) ==
            IF v = None THEN <<"N", "o", "n", "e">>
            ELSE IF Has(v, "'") /\ ~Has(v, "\"")
                 THEN <<"\"">> \o v \o <<"\"">>
                 ELSE <<"'">> \o Escaped(v) \o <<"'">>
        Join[i \in 0..Len(fields)] ==
            IF i = 0 THEN <<>>
            ELSE Join[i - 1] \o (IF i = 1 THEN <<>> ELSE <<",", " ">>)
                 \o Repr(row[fields[i]])
    IN  <<"(">> \o Join[Len(fields)]
        \o (IF Len(fields) = 1 THEN <<",", ")">> ELSE <<")">>)

\* lines 98-195: deduplicate().  False when the input file is missing, a
\* key field is not a column, or writing the output raises; a dry run
\* writes nothing.  keep_first keeps a row when its key has not been seen;
\* otherwise the dict last_occurrence holds for each key, in the order the
\* keys first appeared, the last row that has it
deduplicate ==
    /\ dret = "pending"
    /\ LET rows == in_file.rows
           Key(i) == get_row_key(rows[i], key_fields)
           first == [i \in 1..Len(rows) |-> \A j \in 1..(i - 1) : Key(j) # Key(i)]
           Last(i) == CHOOSE j \in i..Len(rows) :
                         /\ Key(j) = Key(i)
                         /\ \A k \in (j + 1)..Len(rows) : Key(k) # Key(i)
           kept[i \in 0..Len(rows)] ==
               IF i = 0 THEN <<>>
               ELSE IF first[i]
                    THEN Append(kept[i - 1],
                                IF keep_first THEN rows[i] ELSE rows[Last(i)])
                    ELSE kept[i - 1]
       IN  IF \/ ~in_file.exists
              \/ \E k \in 1..Len(key_fields) : key_fields[k] \notin {"sub", "email"}
           THEN /\ dret' = "False"
                /\ UNCHANGED out_file
           ELSE IF dry_run
           THEN /\ dret' = "True"
                /\ UNCHANGED out_file
           ELSE \/ /\ out_file' = [exists |-> TRUE, rows |-> kept[Len(rows)]]
                   /\ dret' = "True"
                \/ /\ out_file' \in {out_file, [exists |-> TRUE, rows |-> <<>>]}
                   /\ dret' = "False"
    /\ UNCHANGED <<in_file, key_fields, keep_first, dry_run>>
    /\ UNCHANGED <<request, projVars, uploadVars, mainVars, configVars,
                   retryVars, exportVars, storeVars>>

(* One call of deduplicate on an input of at most MaxRows rows *)

MaxRows == 3

\* __init__, lines 46-58: key_fields or ['sub']
DedupInit ==
    /\ max_retries = MAX_RETRIES
    /\ base_delay = BASE_DELAY
    /\ page_size = SERVICE_PAGE_LIMIT
    /\ pool_size = 0
    /\ max_records = 0
    /\ starting_token = None
    /\ group_name = None
    /\ filter_expression = None
    /\ end_token = None
    /\ pagination_token = None
    /\ pc = "idle"
    /\ IdleExport
    /\ IdleRetry
    /\ IdleStore
    /\ Idle({"project", "upload", "main"})
    /\ LET Lines == [sub : {<<"a">>, <<>>, None}, email : {<<"x">>, <<"y">>}]
       IN  \/ in_file \in {[exists |-> TRUE, rows |-> r] :
                             r \in UNION {[1..n -> Lines] : n \in 0..MaxRows}}
           \/ in_file = [exists |-> FALSE, rows |-> <<>>]
    /\ \E given \in {<<>>, <<"sub">>, <<"email">>, <<"sub", "email">>,
                     <<"username">>} :
          key_fields = IF given = <<>> THEN <<"sub">> ELSE given
    /\ keep_first \in BOOLEAN
    /\ dry_run \in BOOLEAN
    /\ out_file = [exists |-> FALSE, rows |-> <<>>]
    /\ dret = "pending"

DedupSpec == DedupInit /\ [][deduplicate]_vars

\* C19: after a successful deduplicate that is no dry run, every key-field
\* tuple of the input is the tuple of exactly one output row, and that row
\* is the first input row with the tuple when keep_first is set, the last
\* one otherwise.
C19_OneRowPerKey ==
    (dret = "True" /\ ~dry_run) =>
        LET Tuple(row) == [k \in 1..Len(key_fields) |-> row[key_fields[k]]]
            ins == in_file.rows
            outs == out_file.rows
            Chosen(i) ==
                IF keep_first
                THEN \A j \in 1..(i - 1) : Tuple(ins[j]) # Tuple(ins[i])
                ELSE \A j \in (i + 1)..Len(ins) : Tuple(ins[j]) # Tuple(ins[i])
        IN  /\ out_file.exists
            /\ \A i \in 1..Len(ins) :
                  \E j \in 1..Len(outs) : Tuple(outs[j]) = Tuple(ins[i])
            /\ \A j, k \in 1..Len(outs) :
                  Tuple(outs[j]) = Tuple(outs[k]) => j = k
            /\ \A j \in 1..Len(outs) :
                  \E i \in 1..Len(ins) : Chosen(i) /\ outs[j] = ins[i]

\* keep-last on three rows: two share the key, differ in the other column,
\* and the third has no value where the others have the empty string
C19_Witness ==
    /\ dret = "True"
    /\ ~dry_run
    /\ ~keep_first
    /\ key_fields = <<"sub">>
    /\ Len(in_file.rows) = 3
    /\ Len(out_file.rows) = 2
    /\ in_file.rows[1].sub = <<>>
    /\ in_file.rows[2].sub = None
    /\ in_file.rows[3].sub = <<>>
    /\ in_file.rows[1].email # in_file.rows[3].email

-----------------------------------------------------------------------------
(* Claims about one call of with_backoff_retry as a whole (RetryFairSpec) *)

-----------------------------------------------------------------------------
(* Claims about the checkpoints of one export_users run (Spec) *)

\* C21: at the end of a fully processed page a checkpoint is saved if and
\* only if the cadence is due (the page count is a multiple of 10, or 500
\* records were exported since the last checkpoint) and the page's result
\* carries a continuation token.
C21_CheckpointCadence ==
    [][(pc = "rows" /\ page_count' = page_count + 1)
          => ((saves' # saves) <=>
                 (/\ CheckpointDue(total_exported, last_checkpoint,
                                   page_count + 1)
                  /\ Truthy(ContinuationToken(response))))]_vars

\* C22: every checkpoint saved holds a count equal to the number of listing
\* records that precede the page its token points to (counted from where
\* the run started); shown on the saves of runs that were not interrupted.
C22_CheckpointConsistent ==
    "interrupted" \notin events =>
        \A i \in 1..Len(saves) :
            StartOffset(saves[i].token) =
                StartOffset(starting_token) + saves[i].total

C25_CooldownBetweenFetches ==
    /\ [](LET n == Len(fetches)
          IN  /\ n = 0 => cooldowns = 0
              /\ n >= 1 => cooldowns \in {n - 1, n}
              /\ pc = "fetching" => cooldowns = n - 1
              /\ (n >= 1 /\ events \cap {"end", "cap", "fetch_failed",
                                        "io_error"} # {})
                     => cooldowns = n - 1)
    /\ [][cooldowns' # cooldowns =>
             /\ cooldowns' = cooldowns + 1
             /\ pc = "rows" /\ pc' = "cooldown"
             /\ row_index = Len(response.Users)
             /\ Truthy(ContinuationToken(response))
             /\ ~CapReached(max_records, total_exported)]_vars

C25_Witness ==
    /\ pc = "fetching"
    /\ Len(fetches) = 3
    /\ cooldowns = 2

\* C30: export_users terminates; while fetching one page it invokes the
\* remote operation at most max_retries + 1 times, a throttled fetch fails
\* only when the page's own budget of max_retries + 1 invocations is used
\* up, and the run stops at the first page without a continuation token, at
\* the first failed fetch and when the record cap is reached.
C30_ExportTerminates ==
    /\ <>(pc \in {"returned", "raised"})
    /\ [](Len(history) <= max_retries + 1)
    /\ []((pc = "fetching" /\ rpc = "raised" /\ Throttles(rresult))
             => Len(history) = max_retries + 1)
    /\ []((events \cap {"end", "fetch_failed", "cap"} # {})
             => pc = "returned")
    /\ [][(\/ pc = "rows" /\ row_index = Len(response.Users)
                          /\ ~Truthy(ContinuationToken(response))
           \/ pc = "fetching" /\ rpc = "raised"
           \/ pc = "rows" /\ row_index < Len(response.Users)
                          /\ CapReached(max_records, total_exported + 1))
             => pc' = "returned"]_vars
    /\ [][(pc \in {"returned", "raised"}) => (vars' = vars)]_vars

C30_Witness ==
    /\ pc = "returned"
    /\ "fetch_failed" \in events
    /\ Len(fetches) = 2
    /\ max_retries = 1
    /\ Len(saves) = 1

-----------------------------------------------------------------------------
(* Claims about resumed runs of main (MainSpec) *)

\* the run read the checkpoint of the earlier run and resumes from its
\* token, which points at a page of the listing
Resumed ==
    /\ found = "intact"
    /\ Truthy(loaded[1])
    /\ pool_size > StartOffset(loaded[1])

\* C23: after a run that ended early with a checkpoint, a resumed run on the
\* same output file that reaches the end of the listing leaves a file that
\* holds every record of the listing exactly once.
C23_ResumeCompletesFile ==
    (/\ Resumed
     /\ pc = "returned"
     /\ "end" \in events
     /\ Undisturbed)
        => csv_file.rows = [i \in 1..pool_size |-> i]

\* C26: in a resumed run the running count equals the count saved in the
\* checkpoint before the first page is fetched, and the total returned at
\* the end of the listing is that count plus the records of this run.
C26_ResumedCountContinues ==
    /\ (Resumed /\ pc = "loop" /\ fetches = <<>>)
          => total_exported = loaded[2]
    /\ (Resumed /\ pc = "returned" /\ "end" \in events /\ Undisturbed)
          => ret = loaded[2] + Available

\* C29: with --resume and no --starting-token, a missing or unparseable
\* checkpoint file makes main log a warning and start the export without a
\* token; with --starting-token the checkpoint file is not read and the
\* export starts from the given token.
C29_ResumeWithoutCheckpoint ==
    /\ []((found \in {"missing", "torn"}) =>
             /\ args.resume /\ ~Truthy(args.starting_token)
             /\ loaded = <<None, 0>>
             /\ "No valid checkpoint found" \in log
             /\ ~Truthy(starting_token)
             /\ Len(fetches) >= 1 => ~Truthy(fetches[1])
             /\ (Len(fetches) = 1 /\ request # NoRequest)
                   => request.PaginationToken = None)
    /\ [](Truthy(args.starting_token) =>
             /\ found = "nothing"
             /\ loaded = <<None, 0>>
             /\ "No valid checkpoint found" \notin log
             /\ Len(fetches) >= 1 => fetches[1] = args.starting_token)
    /\ [][found' # found =>
             /\ found' = disk
             /\ mpc' = "construct"
             /\ exit_code' = Unbound]_vars

C29_Witness ==
    /\ found = "torn"
    /\ "No valid checkpoint found" \in log
    /\ Len(fetches) = 2
    /\ ~Truthy(fetches[1])
    /\ mpc = "exit"
    /\ exit_code = 0

\* C28: a command line giving both --filter-expression and --group-name is
\* rejected and one giving at most one of them is accepted; every request
\* of a run is in the mode fixed at construction (list_users_in_group if and
\* only if a group name is set), and a group request carries no Filter.
C28_FilterGroupExclusive ==
    /\ []((args.filter_expression # None /\ args.group_name # None) =>
             /\ mpc \in {"parse", "exit"}
             /\ mpc = "exit" => exit_code \in {2, 130}
             /\ pc = "idle"
             /\ request = NoRequest)
    /\ [](exit_code = 2 =>
             (args.filter_expression # None /\ args.group_name # None))
    /\ [](request # NoRequest =>
             /\ group_name = args.group_name
             /\ filter_expression = args.filter_expression
             /\ request.op = (IF Truthy(args.group_name)
                              THEN "list_users_in_group" ELSE "list_users")
             /\ request.GroupName = args.group_name
             /\ request.Filter = args.filter_expression
             /\ request.op = "list_users_in_group" => request.Filter = None)
    /\ [][(mpc = "parse" /\ mpc' # "parse" /\ exit_code' # 130)
             => (mpc' = "start" <=>
                   ~(args.filter_expression # None /\ args.group_name # None))]_vars

C28_Witness ==
    /\ args.group_name = <<"g">>
    /\ request.op = "list_users_in_group"
    /\ request.Filter = None
    /\ mpc = "exit"
    /\ exit_code = 0
    /\ Rows = 1

-----------------------------------------------------------------------------
(* The backoff delays of long calls (RetryLongSpec) *)

\* C24: the delay slept before the k-th retry is base_k + j clamped at 0,
\* with base_k = min(MAX_DELAY, base_delay * 2^(k-1)) and |j| <= 25% of
\* base_k; base_k does not decrease with k, the first retry uses base_delay,
\* and for large k base_k is MAX_DELAY: computing it never fails, so a call
\* throttled within its budget goes on to sleep.
C24_BackoffDelay ==
    LET base(k) == IF k - 1 >= 15
                   THEN (IF base_delay > 0 THEN MAX_DELAY ELSE 0)
                   ELSE Min(MAX_DELAY, base_delay * (2 ^ (k - 1)))
        q(k) == (JITTER_PERCENT * base(k)) \div 100
    IN  /\ rpc = "sleeping" =>
              /\ retries >= 1 /\ retries <= max_retries
              /\ delay >= Max(0, base(retries) - q(retries))
              /\ delay <= base(retries) + q(retries)
              /\ retries = 1 => base(retries) = Min(MAX_DELAY, base_delay)
              /\ retries >= 2 => base(retries) >= base(retries - 1)
              /\ (retries > 15 /\ base_delay > 0) => base(retries) = MAX_DELAY
        /\ rpc = "raised" => rresult.cls # "OverflowError"

-----------------------------------------------------------------------------
(* Claims about what main does after the export (MainSpec) *)

\* C31: main starts the S3 upload only after an export that ran to
\* completion (end of the listing or record cap): never after a run cut
\* short by a fetch failure, an output I/O failure or an interruption
\* (shown here on the runs whose output file was written without failure).
C31_UploadOnlyAfterCompletion ==
    (upc # "idle" /\ "io_error" \notin events) =>
        /\ events \cap {"end", "cap"} # {}
        /\ Undisturbed

\* C32: after an export that ran to the end of the listing without a
\* failure, no checkpoint file is left for the output file (shown here on
\* the runs that saved nothing at the end of their last page).
C32_NoCheckpointLeftBehind ==
    (/\ pc = "returned"
     /\ "end" \in events
     /\ Undisturbed
     /\ \A i \in 1..Len(saves) : saves[i].total < Rows)
        => (checkpoint_file = NoFile /\ disk = "missing")

-----------------------------------------------------------------------------
(* The order of the rows deduplicate writes (DedupSpec) *)

\* C33: in both modes the rows written by deduplicate are a subsequence of
\* the input rows: they appear in the output in the order in which they
\* appear in the input.
C33_OutputIsSubsequence ==
    (dret = "True" /\ ~dry_run) =>
        LET ins == in_file.rows
            outs == out_file.rows
        IN  \E f \in [1..Len(outs) -> 1..Len(ins)] :
                /\ \A j, k \in 1..Len(outs) : j < k => f[j] < f[k]
                /\ \A j \in 1..Len(outs) : outs[j] = ins[f[j]]

====
